---- MODULE Spec2Model ----
(***************************************************************************)
(* KEGG Pathways to OBO (pyobo.sources.kegg.pathway).                      *)
(*                                                                         *)
(* The module models iter_terms as it is consumed: the reference-map terms *)
(* of the catalog, then, genome after genome, the fetch of the genome's    *)
(* two files, the parse of the pathway listing, the merge of the gene-link *)
(* table and the emission of the genome's terms.  Strings are sequences of *)
(* one-character strings so that slicing, stripping, splitting and sorting *)
(* are computed as Python computes them.                                   *)
(***************************************************************************)
EXTENDS Integers, Sequences, FiniteSets, TLC

VARIABLES
    catalog,    \* what ensure_list_pathways() returns: <<identifier, name>> pairs
    genomes,    \* what iter_kegg_genomes() produces
    pc,         \* position of the consumer of iter_terms
    fetches,    \* one entry per genome taken from iter_kegg_genomes, in order
    terms,      \* the local dict `terms` of _iter_genome_terms (insertion ordered)
    ti,         \* number of values of `terms` already yielded
    out,        \* the Terms iter_terms has yielded so far
    diag,       \* the messages written with tqdm.write so far
    error       \* the exception that left iter_terms, or None

vars == <<catalog, genomes, pc, fetches, terms, ti, out, diag, error>>

None == "None"

----------------------------------------------------------------------------
(* Bound of the model: the lines of all the files read during one run.     *)

MaxLines == 3

----------------------------------------------------------------------------
(* Strings.                                                                *)

Ord ==
    ("\t" :> 9) @@ ("\n" :> 10) @@ (" " :> 32) @@ ("0" :> 48) @@ ("1" :> 49)
    @@ ("2" :> 50) @@ (":" :> 58) @@ ("a" :> 97) @@ ("b" :> 98) @@ ("e" :> 101)
    @@ ("h" :> 104) @@ ("m" :> 109) @@ ("p" :> 112) @@ ("t" :> 116)
    @@ ("G" :> 71) @@ ("P" :> 80) @@ ("T" :> 84)

isnumeric(e) == e \in {"0", "1", "2"}

isspace(e) == e \in {"\t", "\n", " "}

\* s[n:]
SliceFrom(s, n) == SubSeq(s, n + 1, Len(s))

RECURSIVE lstrip(_)
lstrip(s) ==
    IF s # <<>> /\ isspace(Head(s)) THEN lstrip(Tail(s)) ELSE s

RECURSIVE rstrip(_)
rstrip(s) ==
    IF s # <<>> /\ isspace(s[Len(s)]) THEN rstrip(SubSeq(s, 1, Len(s) - 1)) ELSE s

strip(s) == lstrip(rstrip(s))

\* s.split(sep) for a one-character sep
RECURSIVE split(_, _)
split(s, sep) ==
    IF \E i \in 1..Len(s) : s[i] = sep
    THEN LET i == CHOOSE k \in 1..Len(s) : s[k] = sep /\ \A j \in 1..(k - 1) : s[j] # sep
         IN  <<SubSeq(s, 1, i - 1)>> \o split(SliceFrom(s, i), sep)
    ELSE <<s>>

\* the order of Python's str: by code point, a proper prefix first
RECURSIVE StrLeq(_, _)
StrLeq(a, b) ==
    IF a = <<>> THEN TRUE
    ELSE IF b = <<>> THEN FALSE
    ELSE IF Head(a) = Head(b) THEN StrLeq(Tail(a), Tail(b))
    ELSE Ord[Head(a)] < Ord[Head(b)]

RECURSIVE InsertSorted(_, _)
InsertSorted(x, s) ==
    IF s = <<>> THEN <<x>>
    ELSE IF StrLeq(Head(s), x) THEN <<Head(s)>> \o InsertSorted(x, Tail(s))
    ELSE <<x>> \o s

RECURSIVE sorted(_)
sorted(v) ==
    IF v = <<>> THEN <<>> ELSE InsertSorted(v[Len(v)], sorted(SubSeq(v, 1, Len(v) - 1)))

path_prefix == <<"p", "a", "t", "h", ":">>

map_prefix == <<"m", "a", "p">>

----------------------------------------------------------------------------
(* pyobo.struct: Reference, Term, the relationship kinds.                  *)

KEGG_PATHWAY_PREFIX == "kegg.pathway"

from_kegg_species == "inKeggTaxon"

species_specific == "speciesSpecific"

has_part == "has_part"

Reference(prefix, identifier, name) ==
    [prefix |-> prefix, identifier |-> identifier, name |-> name]

Term(reference) ==
    [reference |-> reference, relationships |-> <<>>, species |-> None]

append_relationship(term, typedef, reference) ==
    [term EXCEPT !.relationships = Append(@, [typedef |-> typedef, reference |-> reference])]

set_species(term, taxonomy_id) ==
    [term EXCEPT !.species = taxonomy_id]

KEGGGenome(identifier, name, taxonomy_id) ==
    [identifier |-> identifier, name |-> name, taxonomy_id |-> taxonomy_id]

get_reference(kegg_genome) ==
    Reference("kegg.genome", kegg_genome.identifier, kegg_genome.name)

----------------------------------------------------------------------------
(* The insertion-ordered dict `terms`, keyed by pathway identifier.        *)

DictIndex(d, key) ==
    IF \E i \in 1..Len(d) : d[i].reference.identifier = key
    THEN CHOOSE i \in 1..Len(d) : d[i].reference.identifier = key
    ELSE 0

\* d[key] = value: a key already present keeps its position
DictSet(d, key, value) ==
    IF DictIndex(d, key) = 0 THEN Append(d, value)
    ELSE [d EXCEPT ![DictIndex(d, key)] = value]

----------------------------------------------------------------------------
(* _get_link_pathway_map                                                   *)

\* rv[key].append(value) on a defaultdict(list), kept as a sequence of items
RvAppend(rv, key, value) ==
    IF \E i \in 1..Len(rv) : rv[i].k = key
    THEN LET i == CHOOSE j \in 1..Len(rv) : rv[j].k = key
         IN  [rv EXCEPT ![i].v = Append(@, value)]
    ELSE Append(rv, [k |-> key, v |-> <<value>>])

\* `protein, pathway = line.strip().split('\t')`: the first field
link_protein(line) == split(strip(line), "\t")[1]

\* the second field, after `pathway = pathway[len('path:'):]`
link_pathway(line) == SliceFrom(split(strip(line), "\t")[2], Len(path_prefix))

\* the body of the loop over the lines of the link table: the value
\* appended under the pathway is the pathway, the protein is not used
LinkLine(rv, line) ==
    LET protein == link_protein(line)
        pathway == link_pathway(line)
    IN  RvAppend(rv, pathway, pathway)

RECURSIVE LinkLoop(_, _, _)
LinkLoop(lines, i, rv) ==
    IF i > Len(lines) THEN rv ELSE LinkLoop(lines, i + 1, LinkLine(rv, lines[i]))

\* variant: the values of one pathway are made unique before they are sorted
get_link_pathway_map_unique(lines) ==
    LET rv == LinkLoop(lines, 1, <<>>)
        Uniq(v) == SelectSeq([j \in 1..Len(v) |-> IF \E h \in 1..(j - 1) : v[h] = v[j] THEN <<>> ELSE v[j]],
                             LAMBDA x : x # <<>>)
    IN  [i \in 1..Len(rv) |-> [k |-> rv[i].k, v |-> sorted(Uniq(rv[i].v))]]

get_link_pathway_map(lines) ==
    LET rv == LinkLoop(lines, 1, <<>>)
    IN  [i \in 1..Len(rv) |-> [k |-> rv[i].k, v |-> sorted(rv[i].v)]]

----------------------------------------------------------------------------
(* _iter_map_terms                                                         *)

\* the Term built for one item of the catalog
map_term(identifier, name) ==
    Term(Reference(KEGG_PATHWAY_PREFIX, identifier, name))

\* variant: the last item of the catalog is never reached
map_terms_exhausted_early(items, yielded) == yielded + 1 >= Len(items)

\* whether the generator _iter_map_terms has yielded its last Term
map_terms_exhausted(items, yielded) == yielded >= Len(items)

----------------------------------------------------------------------------
(* _iter_genome_terms                                                      *)

\* variant: the mapping outlives the call (a module-level dict)
new_terms_shared(previous) == previous

\* `terms = {}`: the mapping is created anew by every call
new_terms(previous) == <<>>

\* the i of `i for i, e in enumerate(pathway_id) if e.isnumeric()`, from 1
NumericIndices(pathway_id) ==
    {i \in 1..Len(pathway_id) : isnumeric(pathway_id[i])}

\* variant: max(...) instead of min(...)
first_numeric_last(pathway_id) ==
    CHOOSE i \in NumericIndices(pathway_id) : \A j \in NumericIndices(pathway_id) : i >= j

\* min(...) of a non-empty generator
first_numeric(pathway_id) ==
    CHOOSE i \in NumericIndices(pathway_id) : \A j \in NumericIndices(pathway_id) : i <= j

\* pathway_id[_start:]
pathway_code_of(pathway_id) ==
    SubSeq(pathway_id, first_numeric(pathway_id), Len(pathway_id))

\* the Term of one listing line, with its relationships
listing_term(pathway_id, name, kegg_genome) ==
    LET t0 == Term(Reference(KEGG_PATHWAY_PREFIX, pathway_id, name))
        t1 == append_relationship(t0, species_specific,
                  Reference(KEGG_PATHWAY_PREFIX, map_prefix \o pathway_code_of(pathway_id), None))
        t2 == append_relationship(t1, from_kegg_species, get_reference(kegg_genome))
    IN  IF kegg_genome.taxonomy_id # None THEN set_species(t2, kegg_genome.taxonomy_id) ELSE t2

\* the pathway identifier of a listing line
listing_pathway_id(line) ==
    SliceFrom(strip(split(strip(line), "\t")[1]), Len(path_prefix))

\* the name of a listing line
listing_name(line) == strip(split(strip(line), "\t")[2])

\* variant: a Term already in the mapping is reused and extended
ListingLine_reuse(d, line, kegg_genome) ==
    LET pathway_id == listing_pathway_id(line)
        fresh      == listing_term(pathway_id, listing_name(line), kegg_genome)
        idx        == DictIndex(d, pathway_id)
    IN  IF NumericIndices(pathway_id) = {}
        THEN [terms |-> d, error |-> "ValueError"]
        ELSE IF idx = 0
        THEN [terms |-> Append(d, fresh), error |-> None]
        ELSE [terms |-> [d EXCEPT ![idx].relationships = @ \o fresh.relationships], error |-> None]

\* variant: a line whose code has no numeric character is passed over
ListingLine_skip(d, line, kegg_genome) ==
    LET pathway_id == listing_pathway_id(line)
    IN  IF NumericIndices(pathway_id) = {}
        THEN [terms |-> d, error |-> None]
        ELSE [terms |-> DictSet(d, pathway_id, listing_term(pathway_id, listing_name(line), kegg_genome)),
              error |-> None]

\* the body of the loop over the listing: min() of nothing raises ValueError
ListingLine(d, line, kegg_genome) ==
    LET pathway_id == listing_pathway_id(line)
    IN  IF NumericIndices(pathway_id) = {}
        THEN [terms |-> d, error |-> "ValueError"]
        ELSE [terms |-> DictSet(d, pathway_id, listing_term(pathway_id, listing_name(line), kegg_genome)),
              error |-> None]

RECURSIVE ListingLoop(_, _, _, _)
ListingLoop(lines, i, d, kegg_genome) ==
    IF i > Len(lines) THEN [terms |-> d, error |-> None]
    ELSE LET r == ListingLine(d, lines[i], kegg_genome)
         IN  IF r.error # None THEN r ELSE ListingLoop(lines, i + 1, r.terms, kegg_genome)

\* f'could not find kegg.pathway:{pathway_id}'
could_not_find(pathway_id) == [kind |-> "could not find", pathway |-> pathway_id]

RECURSIVE AppendParts(_, _, _)
AppendParts(term, protein_ids, i) ==
    IF i > Len(protein_ids) THEN term
    ELSE AppendParts(append_relationship(term, has_part,
                         Reference("kegg.genes", protein_ids[i], None)),
                     protein_ids, i + 1)

\* the body of the loop over the items of the link map: a missing Term is
\* reported, and the loop over protein_ids then calls a method of None
MergeItem(d, msgs, item) ==
    LET idx == DictIndex(d, item.k)
    IN  IF idx = 0
        THEN [terms |-> d, diag |-> Append(msgs, could_not_find(item.k)),
              error |-> IF item.v # <<>> THEN "AttributeError" ELSE None]
        ELSE [terms |-> [d EXCEPT ![idx] = AppendParts(d[idx], item.v, 1)],
              diag |-> msgs, error |-> None]

RECURSIVE MergeLoop(_, _, _, _)
MergeLoop(items, i, d, msgs) ==
    IF i > Len(items) THEN [terms |-> d, diag |-> msgs, error |-> None]
    ELSE LET r == MergeItem(d, msgs, items[i])
         IN  IF r.error # None THEN r ELSE MergeLoop(items, i + 1, r.terms, r.diag)

----------------------------------------------------------------------------
(* iter_kegg_pathway_paths                                                 *)

\* the resource a fetch of the api module asks for
resource_url(which, identifier) == <<which, "pathway", identifier>>

\* variant: the taxonomy is never put in the message
http_error_message_no_taxonomy(kegg_genome, code, url) ==
    [kind |-> "HTTP", code |-> code, identifier |-> kegg_genome.identifier,
     name |-> kegg_genome.name, url |-> url]

\* the f-strings of the except clause, as the record of the values they
\* format: the taxonomy is in the message only when it is known
http_error_message(kegg_genome, code, url) ==
    IF kegg_genome.taxonomy_id = None
    THEN [kind |-> "HTTP", code |-> code, identifier |-> kegg_genome.identifier,
          name |-> kegg_genome.name, url |-> url]
    ELSE [kind |-> "HTTP", code |-> code, identifier |-> kegg_genome.identifier,
          name |-> kegg_genome.name, taxonomy |-> kegg_genome.taxonomy_id, url |-> url]

\* variant: the message is written whatever the code
on_http_error_always(msgs, kegg_genome, code, url) ==
    Append(msgs, http_error_message(kegg_genome, code, url))

\* the except clause: what has been written once it is left
on_http_error(msgs, kegg_genome, code, url) ==
    IF code # 404 THEN Append(msgs, http_error_message(kegg_genome, code, url)) ELSE msgs

----------------------------------------------------------------------------
(* The inputs: what the collaborators can return.                          *)

SeqsUpTo(S, n) == UNION {[1..k -> S] : k \in 0..n}

\* the lines of the listings (kind "list_pathway") or of the link tables
\* (kind "link_pathway") obtained so far
RECURSIVE LinesRead(_, _)
LinesRead(log, kind) ==
    IF log = <<>> THEN 0 ELSE Len(Head(log)[kind]) + LinesRead(Tail(log), kind)

\* the catalog and the genome list are prefixes of these
CatalogItems ==
    << <<map_prefix \o <<"1", "a">>, <<"T">>>>, <<map_prefix \o <<"0", "1">>, <<"G">>>> >>

GenomePool ==
    << KEGGGenome("hsa", "Homo sapiens", "9606"), KEGGGenome("xyz", "Unclassified", None) >>

\* species-specific pathway codes: digits last, digits then a letter, no digit
ListLine(pathway_id, name) == path_prefix \o pathway_id \o <<"\t">> \o name \o <<"\n">>

ListLines ==
    { ListLine(<<"h", "0", "1">>, <<"G">>), ListLine(<<"h", "0", "1">>, <<"P">>),
      ListLine(<<"e", "1", "a">>, <<"T">>), ListLine(<<"h", "a">>, <<"T">>) }

LinkLineOf(protein, pathway_id) == protein \o <<"\t">> \o path_prefix \o pathway_id \o <<"\n">>

LinkLines ==
    { LinkLineOf(<<"b", ":", "1">>, <<"h", "0", "1">>), LinkLineOf(<<"b", ":", "0">>, <<"h", "0", "1">>),
      LinkLineOf(<<"b", ":", "1">>, <<"e", "1", "a">>) }

HTTPCodes == {404, 500}

Which == {"list", "link"}

----------------------------------------------------------------------------
(* The state machine.                                                      *)

Init ==
    /\ catalog \in {SubSeq(CatalogItems, 1, n) : n \in 0..Len(CatalogItems)}
    /\ genomes \in {SubSeq(GenomePool, 1, n) : n \in 0..Len(GenomePool)}
    /\ pc = "maps"
    /\ fetches = <<>>
    /\ terms = <<>>
    /\ ti = 0
    /\ out = <<>>
    /\ diag = <<>>
    /\ error = None

\* the genome the loop of iter_kegg_pathway_paths is at
kegg_genome == genomes[Len(fetches)]

list_pathway_lines == fetches[Len(fetches)].list_pathway

link_pathway_lines == fetches[Len(fetches)].link_pathway

\* what the files still to come may hold
LinesLeft ==
    MaxLines - LinesRead(fetches, "list_pathway") - LinesRead(fetches, "link_pathway")

\* `yield from _iter_map_terms()`: the next Term of the catalog
IterMapTerms ==
    /\ pc = "maps"
    /\ ~map_terms_exhausted(catalog, Len(out))
    /\ out' = Append(out, map_term(catalog[Len(out) + 1][1], catalog[Len(out) + 1][2]))
    /\ UNCHANGED <<catalog, genomes, pc, fetches, terms, ti, diag, error>>

\* the catalog is exhausted: iter_terms enters its loop over the genomes
StartGenomes ==
    /\ pc = "maps"
    /\ map_terms_exhausted(catalog, Len(out))
    /\ pc' = "genomes"
    /\ UNCHANGED <<catalog, genomes, fetches, terms, ti, out, diag, error>>

\* both files of the next genome are obtained: the tuple is yielded
FetchYield(list_lines, link_lines) ==
    /\ pc = "genomes"
    /\ Len(fetches) < Len(genomes)
    /\ fetches' = Append(fetches, [outcome |-> "ok", which |-> None, code |-> 0,
                                   list_pathway |-> list_lines, link_pathway |-> link_lines])
    /\ pc' = "listing"
    /\ UNCHANGED <<catalog, genomes, terms, ti, out, diag, error>>

\* one of the two fetches raises urllib.error.HTTPError
FetchHTTPError(which, code) ==
    /\ pc = "genomes"
    /\ Len(fetches) < Len(genomes)
    /\ fetches' = Append(fetches, [outcome |-> "HTTPError", which |-> which, code |-> code,
                                   list_pathway |-> <<>>, link_pathway |-> <<>>])
    /\ diag' = on_http_error(diag, genomes[Len(fetches) + 1], code,
                             resource_url(which, genomes[Len(fetches) + 1].identifier))
    /\ UNCHANGED <<catalog, genomes, pc, terms, ti, out, error>>

\* one of the two fetches raises something else (urllib.error.URLError):
\* no except clause matches and the exception leaves iter_terms
FetchOtherError(which) ==
    /\ pc = "genomes"
    /\ Len(fetches) < Len(genomes)
    /\ fetches' = Append(fetches, [outcome |-> "URLError", which |-> which, code |-> 0,
                                   list_pathway |-> <<>>, link_pathway |-> <<>>])
    /\ pc' = "raised"
    /\ error' = "URLError"
    /\ UNCHANGED <<catalog, genomes, terms, ti, out, diag>>

\* _iter_genome_terms up to the end of the loop over the listing
ParseListing ==
    /\ pc = "listing"
    /\ LET r == ListingLoop(list_pathway_lines, 1, new_terms(terms), kegg_genome)
       IN  /\ terms' = r.terms
           /\ error' = r.error
           /\ pc' = IF r.error # None THEN "raised" ELSE "merge"
    /\ ti' = 0
    /\ UNCHANGED <<catalog, genomes, fetches, out, diag>>

\* _iter_genome_terms: the loop over the items of the link map
MergeLinks ==
    /\ pc = "merge"
    /\ LET r == MergeLoop(get_link_pathway_map(link_pathway_lines), 1, terms, diag)
       IN  /\ terms' = r.terms
           /\ diag' = r.diag
           /\ error' = r.error
           /\ pc' = IF r.error # None THEN "raised" ELSE "emit"
    /\ UNCHANGED <<catalog, genomes, fetches, ti, out>>

\* `yield from terms.values()`: the next Term of the genome
EmitGenomeTerm ==
    /\ pc = "emit"
    /\ ti < Len(terms)
    /\ out' = Append(out, terms[ti + 1])
    /\ ti' = ti + 1
    /\ UNCHANGED <<catalog, genomes, pc, fetches, terms, diag, error>>

\* the values are exhausted: _iter_genome_terms returns, the next genome is due
EndGenome ==
    /\ pc = "emit"
    /\ ti >= Len(terms)
    /\ pc' = "genomes"
    /\ UNCHANGED <<catalog, genomes, fetches, terms, ti, out, diag, error>>

\* iter_kegg_genomes is exhausted: iter_terms returns
Finish ==
    /\ pc = "genomes"
    /\ Len(fetches) >= Len(genomes)
    /\ pc' = "done"
    /\ UNCHANGED <<catalog, genomes, fetches, terms, ti, out, diag, error>>

Next ==
    \/ IterMapTerms
    \/ StartGenomes
    \/ \E list_lines \in SeqsUpTo(ListLines, LinesLeft) :
         \E link_lines \in SeqsUpTo(LinkLines, LinesLeft - Len(list_lines)) :
            FetchYield(list_lines, link_lines)
    \/ \E which \in Which, code \in HTTPCodes : FetchHTTPError(which, code)
    \/ \E which \in Which : FetchOtherError(which)
    \/ ParseListing
    \/ MergeLinks
    \/ EmitGenomeTerm
    \/ EndGenome
    \/ Finish

Spec == Init /\ [][Next]_vars

----------------------------------------------------------------------------
(* What the properties speak of.                                           *)

\* the identifiers of the has_part relationships of a Term, in order
HasPartIds(t) ==
    LET parts == SelectSeq(t.relationships, LAMBDA r : r.typedef = has_part)
    IN  [j \in 1..Len(parts) |-> parts[j].reference.identifier]

\* the relationships of one kind of a Term
RelsOf(t, typedef) ==
    SelectSeq(t.relationships, LAMBDA r : r.typedef = typedef)

\* the position in the genome list of the genome a Term is in, 0 if none
GenomeOf(t) ==
    LET rels == RelsOf(t, from_kegg_species)
    IN  IF rels = <<>> THEN 0
        ELSE IF \E i \in 1..Len(genomes) : genomes[i].identifier = rels[1].reference.identifier
        THEN CHOOSE i \in 1..Len(genomes) : genomes[i].identifier = rels[1].reference.identifier
        ELSE 0

\* the Terms yielded so far that are in the i-th genome
OutOf(i) == SelectSeq(out, LAMBDA t : GenomeOf(t) = i)

\* the lines of a link table that name a pathway
LinkLinesOf(lines, pathway_id) ==
    {n \in 1..Len(lines) : link_pathway(lines[n]) = pathway_id}

NonDecreasing(v) == \A j \in 1..(Len(v) - 1) : StrLeq(v[j], v[j + 1])

NoDuplicate(v) == \A j, h \in 1..Len(v) : j # h => v[j] # v[h]

\* the pathway identifiers of a listing, each at its first occurrence
RECURSIVE FirstOccurrences(_)
FirstOccurrences(lines) ==
    IF lines = <<>> THEN <<>>
    ELSE LET before == FirstOccurrences(SubSeq(lines, 1, Len(lines) - 1))
             id     == listing_pathway_id(lines[Len(lines)])
         IN  IF \E j \in 1..Len(before) : before[j] = id THEN before ELSE Append(before, id)

\* the name the last line of a listing gives to a pathway
LastName(lines, pathway_id) ==
    LET n == CHOOSE m \in 1..Len(lines) :
                 /\ listing_pathway_id(lines[m]) = pathway_id
                 /\ \A h \in (m + 1)..Len(lines) : listing_pathway_id(lines[h]) # pathway_id
    IN  listing_name(lines[n])

HasNoNumeric(pathway_id) == \A j \in 1..Len(pathway_id) : ~isnumeric(pathway_id[j])

IsPrefixOf(a, b) == Len(a) <= Len(b) /\ a = SubSeq(b, 1, Len(a))

\* the i-th genome has been left: its fetch failed with a caught error, or
\* all its Terms were yielded
GenomeLeft(i) == i < Len(fetches) \/ pc \in {"genomes", "done"}

----------------------------------------------------------------------------
(* C1: every has_part edge of a pathway Term targets a gene identifier,    *)
(* the first field of a line of the genome's link table whose second field *)
(* is the pathway; it never targets the pathway code itself.               *)

C1_HasPartTargetsGene ==
    pc = "emit" =>
        \A i \in 1..Len(terms) :
            \A j \in 1..Len(HasPartIds(terms[i])) :
                /\ HasPartIds(terms[i])[j] \in
                       {link_protein(link_pathway_lines[n]) :
                            n \in LinkLinesOf(link_pathway_lines, terms[i].reference.identifier)}
                /\ HasPartIds(terms[i])[j] # terms[i].reference.identifier

----------------------------------------------------------------------------
(* C2, as claimed: the identifiers associated with one pathway code, and   *)
(* the has_part edges of its Term, hold no identifier twice and are in     *)
(* ascending order.                                                        *)

C2_UniqueAndSorted ==
    /\ \A f \in 1..Len(fetches) :
           LET m == get_link_pathway_map(fetches[f].link_pathway)
           IN  \A i \in 1..Len(m) : NoDuplicate(m[i].v) /\ NonDecreasing(m[i].v)
    /\ pc = "emit" =>
           \A i \in 1..Len(terms) :
               NoDuplicate(HasPartIds(terms[i])) /\ NonDecreasing(HasPartIds(terms[i]))

(* C2, amended: the identifiers associated with one pathway code, and the  *)
(* has_part edges of its Term, are in ascending order and there is one of  *)
(* them for every line of the link table that names the pathway: a         *)
(* repeated identifier is kept.                                            *)

C2_SortedOnePerLine ==
    /\ \A f \in 1..Len(fetches) :
           LET m == get_link_pathway_map(fetches[f].link_pathway)
           IN  \A i \in 1..Len(m) :
                   /\ NonDecreasing(m[i].v)
                   /\ Len(m[i].v) = Cardinality(LinkLinesOf(fetches[f].link_pathway, m[i].k))
    /\ pc = "emit" =>
           \A i \in 1..Len(terms) :
               /\ NonDecreasing(HasPartIds(terms[i]))
               /\ Len(HasPartIds(terms[i])) =
                      Cardinality(LinkLinesOf(link_pathway_lines, terms[i].reference.identifier))

\* a pathway named by two lines of the link table has been merged
C2_Witness ==
    /\ pc = "emit"
    /\ \E i \in 1..Len(terms) : Len(HasPartIds(terms[i])) = 2

----------------------------------------------------------------------------
(* C3: a pathway code of the link table for which the listing created no   *)
(* Term is reported and skipped: no error is raised and the genome's Terms *)
(* are still emitted.                                                      *)

C3_UnresolvedIsSkipped ==
    \A f \in 1..Len(fetches) :
        (/\ fetches[f].outcome = "ok"
         /\ \A n \in 1..Len(fetches[f].list_pathway) :
                ~HasNoNumeric(listing_pathway_id(fetches[f].list_pathway[n]))
         /\ \E n \in 1..Len(fetches[f].link_pathway) :
                \A h \in 1..Len(fetches[f].list_pathway) :
                    listing_pathway_id(fetches[f].list_pathway[h]) # link_pathway(fetches[f].link_pathway[n]))
        => ~(pc = "raised" /\ f = Len(fetches))

----------------------------------------------------------------------------
(* C4, as claimed: no failure of a fetch, whatever its kind, ends the      *)
(* enumeration of the genomes.                                             *)

C4_NoFetchFailureAborts ==
    \A f \in 1..Len(fetches) :
        fetches[f].outcome # "ok" => (f = Len(fetches) => pc \in {"genomes", "done"} /\ error = None)

(* C4, amended: when a fetch fails with an HTTP error whose code is not    *)
(* 404, one message with the code, the genome's identifier and name, its   *)
(* taxonomy id if it has one, and the failing URL is written, no Term of   *)
(* the genome is yielded and the loop goes on to the next genome.  (Any    *)
(* other exception of a fetch leaves iter_terms.)                          *)

C4_HTTPErrorReported ==
    \A f \in 1..Len(fetches) :
        (fetches[f].outcome = "HTTPError" /\ fetches[f].code # 404) =>
            LET g    == genomes[f]
                url  == resource_url(fetches[f].which, g.identifier)
                msgs == SelectSeq(diag, LAMBDA m : m.kind = "HTTP" /\ m.identifier = g.identifier)
            IN  /\ Len(msgs) = 1
                /\ msgs[1].code = fetches[f].code
                /\ msgs[1].name = g.name
                /\ msgs[1].url = url
                /\ ("taxonomy" \in DOMAIN msgs[1]) <=> (g.taxonomy_id # None)
                /\ g.taxonomy_id # None => msgs[1].taxonomy = g.taxonomy_id
                /\ OutOf(f) = <<>>
                /\ f = Len(fetches) => pc \in {"genomes", "done"} /\ error = None

\* a server error for a genome with a taxonomy id, and the next genome yielded
C4_Witness ==
    /\ Len(fetches) = 2
    /\ fetches[1].outcome = "HTTPError" /\ fetches[1].code = 500
    /\ genomes[1].taxonomy_id # None
    /\ fetches[2].outcome = "ok"
    /\ OutOf(2) # <<>>

----------------------------------------------------------------------------
(* C5: when one of the two fetches of a genome fails with HTTP 404 nothing *)
(* is yielded for the genome, no message is written, no error propagates   *)
(* and the loop goes on; a genome is joined only when both fetches         *)
(* succeeded, and iter_terms returns only after the last genome.           *)

C5_NotFoundIsSilent ==
    /\ \A f \in 1..Len(fetches) :
           (fetches[f].outcome = "HTTPError" /\ fetches[f].code = 404) =>
               /\ \A k \in 1..Len(diag) :
                      diag[k].kind = "HTTP" => diag[k].identifier # genomes[f].identifier
               /\ OutOf(f) = <<>>
               /\ f = Len(fetches) => pc \in {"genomes", "done"} /\ error = None
    /\ pc \in {"listing", "merge", "emit"} => fetches[Len(fetches)].outcome = "ok"
    /\ \A k \in 1..Len(out) : GenomeOf(out[k]) # 0 => fetches[GenomeOf(out[k])].outcome = "ok"
    /\ pc = "done" => Len(fetches) = Len(genomes)

\* a genome that is not found, then a genome whose Terms are yielded
C5_Witness ==
    /\ pc = "done"
    /\ Len(fetches) = 2
    /\ fetches[1].outcome = "HTTPError" /\ fetches[1].code = 404
    /\ OutOf(2) # <<>>
    /\ diag = <<>>

----------------------------------------------------------------------------
(* C6: every Term of a genome has exactly one species_specific and exactly *)
(* one in_kegg_taxon relationship, the latter to the genome's reference,   *)
(* and has a species if and only if the genome has a taxonomy id.          *)

TermOfGenome(t, g) ==
    /\ Len(RelsOf(t, species_specific)) = 1
    /\ Len(RelsOf(t, from_kegg_species)) = 1
    /\ RelsOf(t, from_kegg_species)[1].reference = get_reference(g)
    /\ (t.species # None) <=> (g.taxonomy_id # None)
    /\ t.species = g.taxonomy_id

C6_OneOfEachRelationship ==
    /\ pc = "emit" => \A i \in 1..Len(terms) : TermOfGenome(terms[i], kegg_genome)
    /\ \A k \in (Len(catalog) + 1)..Len(out) :
           /\ GenomeOf(out[k]) # 0
           /\ TermOfGenome(out[k], genomes[GenomeOf(out[k])])

\* a listing with the same pathway code on two lines, its Term yielded
C6_Witness ==
    /\ pc = "emit"
    /\ Len(list_pathway_lines) = 2
    /\ Len(terms) = 1
    /\ ti = 1

----------------------------------------------------------------------------
(* C7: the species_specific relationship of a Term whose code has a        *)
(* numeric character targets 'map' followed by the suffix of the code that *)
(* starts at its leftmost numeric character.                               *)

MapOfCode(t) ==
    \E k \in 1..Len(t.reference.identifier) :
        /\ isnumeric(t.reference.identifier[k])
        /\ \A j \in 1..(k - 1) : ~isnumeric(t.reference.identifier[j])
        /\ \A h \in 1..Len(RelsOf(t, species_specific)) :
               /\ RelsOf(t, species_specific)[h].reference.prefix = KEGG_PATHWAY_PREFIX
               /\ RelsOf(t, species_specific)[h].reference.identifier =
                      <<"m", "a", "p">> \o SubSeq(t.reference.identifier, k, Len(t.reference.identifier))

C7_GenericCode ==
    /\ pc \in {"merge", "emit"} =>
           \A i \in 1..Len(terms) : RelsOf(terms[i], species_specific) # <<>> /\ MapOfCode(terms[i])
    /\ \A k \in (Len(catalog) + 1)..Len(out) :
           RelsOf(out[k], species_specific) # <<>> /\ MapOfCode(out[k])

\* Terms of codes with several digits and with a letter after the digit
C7_Witness ==
    /\ \E k \in 1..Len(out) : out[k].reference.identifier = <<"h", "0", "1">> /\ GenomeOf(out[k]) # 0
    /\ \E k \in 1..Len(out) : out[k].reference.identifier = <<"e", "1", "a">> /\ GenomeOf(out[k]) # 0

----------------------------------------------------------------------------
(* C8, as claimed: a listing line whose code has no numeric character      *)
(* fails alone: the other lines of the genome and the other genomes are    *)
(* still processed.                                                        *)

C8_FailureConfinedToLine ==
    \A f \in 1..Len(fetches) :
        (/\ fetches[f].outcome = "ok"
         /\ \E n \in 1..Len(fetches[f].list_pathway) :
                HasNoNumeric(listing_pathway_id(fetches[f].list_pathway[n])))
        => ~(pc = "raised" /\ f = Len(fetches))

(* C8, amended: a listing line whose code has no numeric character makes   *)
(* the derivation fail with ValueError; no Term with a wrong or empty      *)
(* 'map' identifier is yielded, and the failure is not confined to the     *)
(* line: it leaves iter_terms, so that no Term of that genome is yielded   *)
(* and no later genome is fetched.                                         *)

C8_FailureLeavesIterTerms ==
    /\ \A f \in 1..Len(fetches) :
           (/\ fetches[f].outcome = "ok"
            /\ \E n \in 1..Len(fetches[f].list_pathway) :
                   HasNoNumeric(listing_pathway_id(fetches[f].list_pathway[n])))
           => /\ f = Len(fetches)
              /\ pc \in {"listing", "raised"}
              /\ pc = "raised" => error = "ValueError"
              /\ OutOf(f) = <<>>
    /\ \A k \in (Len(catalog) + 1)..Len(out) :
           /\ ~HasNoNumeric(out[k].reference.identifier)
           /\ \A h \in 1..Len(RelsOf(out[k], species_specific)) :
                  LET id == RelsOf(out[k], species_specific)[h].reference.identifier
                  IN  Len(id) > 3 /\ isnumeric(id[4])

\* a code without numeric character on the second line of the first of two
\* genomes: the Term of the first line and the second genome are lost
C8_Witness ==
    /\ pc = "raised" /\ error = "ValueError"
    /\ Len(genomes) = 2 /\ Len(fetches) = 1
    /\ Len(list_pathway_lines) = 2
    /\ ~HasNoNumeric(listing_pathway_id(list_pathway_lines[1]))
    /\ Len(terms) = 1

----------------------------------------------------------------------------
(* C9: iter_terms yields the reference-map Terms, one per catalog entry in *)
(* catalog order and without relationships, and then the Terms of each     *)
(* yielded genome in the order of the genome list: the Terms of one genome *)
(* are contiguous and none is dropped or yielded twice.                    *)

C9_MapsThenGenomes ==
    /\ pc = "maps" => Len(out) <= Len(catalog)
    /\ pc # "maps" => Len(out) >= Len(catalog)
    /\ \A k \in 1..Len(out) :
           k <= Len(catalog) =>
               /\ out[k].reference = Reference(KEGG_PATHWAY_PREFIX, catalog[k][1], catalog[k][2])
               /\ out[k].relationships = <<>>
               /\ out[k].species = None
    /\ \A k \in (Len(catalog) + 1)..Len(out) : GenomeOf(out[k]) \in 1..Len(fetches)
    /\ \A k, l \in (Len(catalog) + 1)..Len(out) : k < l => GenomeOf(out[k]) <= GenomeOf(out[l])
    /\ \A f \in 1..Len(fetches) :
           LET ids      == [k \in 1..Len(OutOf(f)) |-> OutOf(f)[k].reference.identifier]
               expected == IF fetches[f].outcome = "ok"
                           THEN FirstOccurrences(fetches[f].list_pathway) ELSE <<>>
           IN  /\ IsPrefixOf(ids, expected)
               /\ GenomeLeft(f) => ids = expected
               /\ \A k \in 1..Len(ids) :
                      OutOf(f)[k].reference.name = LastName(fetches[f].list_pathway, ids[k])

\* a run that returned after a catalog entry and two genomes with Terms
C9_Witness ==
    /\ pc = "done"
    /\ Len(catalog) >= 1
    /\ Len(fetches) = 2
    /\ OutOf(1) # <<>> /\ OutOf(2) # <<>>

----------------------------------------------------------------------------
(* C10: the genomes are processed one after the other: when the files of   *)
(* a genome are fetched every Term of the genomes before it has been       *)
(* yielded; no Term of a genome is yielded before its listing and its link *)
(* table are parsed and merged; and a Term of a genome carries only what   *)
(* the genome's own two files give.                                        *)

C10_StrictlySequential ==
    /\ \A f \in 1..Len(fetches) :
           /\ (f < Len(fetches) /\ fetches[f].outcome = "ok") =>
                  Len(OutOf(f)) = Len(FirstOccurrences(fetches[f].list_pathway))
           /\ (f = Len(fetches) /\ pc \in {"listing", "merge"}) => OutOf(f) = <<>>
           /\ f = Len(fetches) /\ pc = "emit" => OutOf(f) = SubSeq(terms, 1, ti)
           /\ \A k \in 1..Len(OutOf(f)) :
                  LET t == OutOf(f)[k]
                  IN  /\ \E n \in 1..Len(fetches[f].list_pathway) :
                             listing_pathway_id(fetches[f].list_pathway[n]) = t.reference.identifier
                      /\ Len(HasPartIds(t)) =
                             Cardinality(LinkLinesOf(fetches[f].link_pathway, t.reference.identifier))
                      /\ \A j \in 1..Len(HasPartIds(t)) :
                             \E n \in 1..Len(fetches[f].link_pathway) :
                                 HasPartIds(t)[j] \in {link_protein(fetches[f].link_pathway[n]),
                                                       link_pathway(fetches[f].link_pathway[n])}
                      /\ Len(RelsOf(t, from_kegg_species)) = 1
    /\ pc = "emit" => \A i \in 1..Len(terms) : GenomeOf(terms[i]) = Len(fetches)

\* the second genome yields a Term after the first yielded one with a has_part edge
C10_Witness ==
    /\ Len(fetches) = 2
    /\ pc = "emit" /\ ti >= 1
    /\ \E k \in 1..Len(OutOf(1)) : HasPartIds(OutOf(1)[k]) # <<>>

====
